---- MODULE Spec2Model ----
(***************************************************************************)
(* BC.Game odds monitor (src/bc_game_monitor.py): the version-probe /      *)
(* snapshot poll loop and its diff engine.                                 *)
(*                                                                         *)
(* The bodies of diff_and_print, monitor_odds_changes and                  *)
(* run_continuous_monitoring are modelled as methods of BCGameMonitor,     *)
(* which is how they are written (they take self) and how                  *)
(* telegram_bot.py calls them.  self.parse_snapshot_data is read as the    *)
(* module's parse_snapshot_data, and the sleep between two ticks is taken  *)
(* to succeed.                                                             *)
(*                                                                         *)
(* One tick of the loop is one call of monitor_odds_changes.  It is split  *)
(* at its await points: TickStart (memory check, probe request),           *)
(* ProbeReturn (version comparison, snapshot request), SnapshotReturn      *)
(* (parse, diff, baseline update, callback request), CallbackReturn.       *)
(*                                                                         *)
(* Spec is the poll loop.  SpecDiff is one call of diff_and_print on       *)
(* arguments drawn from the maps the extractor can produce.                *)
(* SpecScript is the poll loop fed the probe sequence Script with every    *)
(* fetch succeeding.  SpecBot is the Telegram bot (src/telegram_bot.py):   *)
(* /monitor and /stop of two users and their loops on the bot's monitor,   *)
(* with the upstream publishing new versions.  SpecLeague, SpecInterval,   *)
(* SpecMarket and SpecExtract are one call of league_name_from_maps, of    *)
(* the probe interval, of parse_1x2 and of parse_snapshot_data.            *)
(* SpecScrape is one call of BCGameScraper.scrape_all_odds                 *)
(* (src/bc_game_scraper.py).  SpecMemory is MemoryManager's monitoring     *)
(* loop with its start and stop (src/memory_manager.py), SpecCache the     *)
(* cache file under BCGameVersionManager.save_version_cache                *)
(* (src/version_manager.py).                                               *)
(***************************************************************************)
EXTENDS Integers, Sequences, FiniteSets, TLC

\* ---------------------------------------------------------------- bounds
MaxVersion == 2     \* version markers are 1..MaxVersion
MaxOdds    == 2     \* prices are 1..MaxOdds
MaxName    == 2     \* tournament and category names have up to MaxName letters
MaxDigit   == 2     \* the digits of a max-age value are 0..MaxDigit
MaxDigits  == 2     \* a max-age value has up to MaxDigits digits
MaxCalls   == 4     \* start_monitoring and stop_monitoring are called MaxCalls times
MaxCleanups == 2    \* cleanup_memory runs up to MaxCleanups times
MaxInfo    == 2     \* the version infos saved are those of versions 1..MaxInfo
MaxSaves   == 12    \* save_version_cache is called up to MaxSaves times

\* ------------------------------------------------------------- constants
memory_threshold == 80   \* self.memory_threshold, per cent
DEFAULT_INTERVAL == 8    \* seconds between probes when the server names none
max_memory_mb    == 10   \* MemoryManager.max_memory_mb, in MB
HistoryLimit     == 10   \* entries save_version_cache keeps in update_history

\* ------------------------------------------------------------ value sets
EventIds == {"A", "B"}
Leagues  == {"L1", "L2"}
Homes    == {"H1", "H2"}
Aways    == {"W1", "W2"}
Odds     == 1..MaxOdds
Versions == 1..MaxVersion

\* Python's None for an optional value x is <<>>, a present x is <<x>>.
None    == <<>>
Some(x) == <<x>>

\* last_version: None is 0 (a falsy version never reaches last_version,
\* see ProbeReturn).
NoVersion == 0

\* One entry of a parsed snapshot map: the key event_id with its record.
Records ==
  [league : Leagues, home_team : Homes, away_team : Aways,
   odds_1 : Odds, odds_x : Odds, odds_2 : Odds]

BaseRecord ==
  [league |-> "L1", home_team |-> "H1", away_team |-> "W1",
   odds_1 |-> 1, odds_x |-> 1, odds_2 |-> 1]

\* number of fields in which two records differ
Distance(r, s) ==
  Cardinality({f \in DOMAIN r : r[f] # s[f]})

\* The records the model feeds in: the base record and every record that
\* differs from it in one field.
InputRecords == {r \in Records : Distance(r, BaseRecord) <= 1}

\* ------------------------------------------------------- raw snapshots
\* An outcome that the 1X2 market of a raw event does not list.
Missing == 0

\* One event of the snapshot JSON, under data.sports[Football]
\* .tournaments[].events[]: its id, the tournament's name, the team names
\* and the odds of the outcomes '1', 'X', '2' of its 1X2 market.
RawEvents ==
  [id : EventIds, league : Leagues, home : Homes, away : Aways,
   o1 : Odds \cup {Missing}, ox : Odds \cup {Missing},
   o2 : Odds \cup {Missing}]

RawOf(id, r) ==
  [id |-> id, league |-> r.league, home |-> r.home_team,
   away |-> r.away_team, o1 |-> r.odds_1, ox |-> r.odds_x,
   o2 |-> r.odds_2]

\* The raw events of the records rs: every record of rs, and the base
\* record with one outcome of its market missing.
RawEventsOf(rs) ==
  {RawOf(id, r) : id \in EventIds, r \in rs}
  \cup {[RawOf(id, BaseRecord) EXCEPT ![f] = Missing] :
          id \in EventIds, f \in {"o1", "ox", "o2"}}

\* Event lists over the raw events es without a repeated id, in every order.
EventListsOf(es) ==
  {<<>>}
  \cup {<<e>> : e \in es}
  \cup {l \in es \X es : l[1].id # l[2].id}

\* The poll loop is fed the records that keep the base team names.
LoopRecords ==
  {r \in InputRecords : r.home_team = BaseRecord.home_team
                        /\ r.away_team = BaseRecord.away_team}

LoopEventLists == EventListsOf(RawEventsOf(LoopRecords))

\* What get_snapshot hands back: None on an exception or a non-200 status
\* ("error"), the JSON otherwise; a JSON that is empty ("empty"), one that
\* has no data.sports ("unrecognized"), or one with football events.
SnapshotResults ==
  {[kind |-> k, events |-> <<>>] : k \in {"error", "empty", "unrecognized"}}
  \cup {[kind |-> "ok", events |-> es] : es \in LoopEventLists}

\* What get_probe hands back: None on an exception or a non-200 status
\* ("error"), an empty JSON ("empty"), a JSON object without a truthy
\* data.version ("noversion"), a JSON on which .get('data', {}).get(..)
\* raises, such as {"data": null} or a list ("malformed"), or a JSON with
\* version v.
ProbeResults ==
  {[kind |-> k, version |-> NoVersion] :
     k \in {"error", "empty", "noversion", "malformed"}}
  \cup {[kind |-> "ok", version |-> v] : v \in Versions}

\* --------------------------------------------------- parsed snapshot map
\* A dict {event_id: record} in insertion order: a sequence of entries.
Keys(m) == {m[i].event_id : i \in DOMAIN m}

Get(m, id) == (CHOOSE i \in DOMAIN m : m[i].event_id = id)

Data(m, id) == m[Get(m, id)].data

\* result[event_id] = data
Put(m, id, data) ==
  IF id \in Keys(m)
    THEN [m EXCEPT ![Get(m, id)] = [event_id |-> id, data |-> data]]
    ELSE Append(m, [event_id |-> id, data |-> data])

\* dict equality: same keys, same values, whatever the order
DictEq(m, n) ==
  /\ Keys(m) = Keys(n)
  /\ \A id \in Keys(m) : Data(m, id) = Data(n, id)

\* odds_data of one event: the outcomes named '1', 'X', '2' that the market
\* lists; the event is recorded when all three are there.
OddsDataLen(e) ==
  Cardinality({f \in {"o1", "ox", "o2"} : e[f] # Missing})

\* An event whose 'home' is null: event.get('home', {}) is then None and
\* .get('name') raises AttributeError.
Null == "null"

Raises(e) == e.home = Null

\* The loop over the events.  An exception raised at an event leaves all the
\* loops for the one `except Exception` of parse_snapshot_data, which goes on
\* to `return result`.
RECURSIVE ParseEvents(_, _)
ParseEvents(events, result) ==
  IF events = <<>> THEN result
  ELSE IF Raises(Head(events)) THEN result
  ELSE LET e == Head(events)
           next == IF OddsDataLen(e) = 3
                     THEN Put(result, e.id,
                              [league |-> e.league, home_team |-> e.home,
                               away_team |-> e.away, odds_1 |-> e.o1,
                               odds_x |-> e.ox, odds_2 |-> e.o2])
                     ELSE result
       IN ParseEvents(Tail(events), next)

parse_snapshot_data(snapshot) == ParseEvents(snapshot.events, <<>>)

\* ---------------------------------------------------------- diff engine
\* `if not prev`: None and the empty dict are both falsy
Falsy(opt) == opt = None \/ opt[1] = <<>>

\* the draw price left out of the comparison
OddsDiffer_no_draw(prev_data, curr_data) ==
  \/ prev_data.odds_1 # curr_data.odds_1
  \/ prev_data.odds_2 # curr_data.odds_2

\* the whole records compared instead of their odds
OddsDiffer_whole_record(prev_data, curr_data) ==
  prev_data # curr_data

\* the records compared by identity (`is not`): two parsed snapshots never
\* share a record object
OddsDiffer_by_identity(prev_data, curr_data) ==
  TRUE

OddsDiffer(prev_data, curr_data) ==
  \/ prev_data.odds_1 # curr_data.odds_1
  \/ prev_data.odds_x # curr_data.odds_x
  \/ prev_data.odds_2 # curr_data.odds_2

NewChange(event_id, curr_data) ==
  [type |-> "new", event_id |-> event_id, data |-> curr_data]

ChangedChange(event_id, prev_data, curr_data) ==
  [type |-> "changed", event_id |-> event_id,
   prev_data |-> prev_data, curr_data |-> curr_data]

\* the loop `for event_id, curr_data in curr.items()`
RECURSIVE DiffLoop(_, _, _)
DiffLoop(prev, items, changes) ==
  IF items = <<>> THEN changes
  ELSE LET event_id == Head(items).event_id
           curr_data == Head(items).data
           next ==
             IF event_id \notin Keys(prev)
               THEN Append(changes, NewChange(event_id, curr_data))
             ELSE IF OddsDiffer(Data(prev, event_id), curr_data)
               THEN Append(changes,
                      ChangedChange(event_id, Data(prev, event_id), curr_data))
             ELSE changes
       IN DiffLoop(prev, Tail(items), next)

\* no seed case: a missing baseline is read as an empty one
diff_and_print_no_seed(prev, curr) ==
  DiffLoop(IF prev = None THEN <<>> ELSE prev[1], curr, <<>>)

\* a 'removed' record for every event of prev that curr lacks
diff_and_print_removed(prev, curr) ==
  IF Falsy(prev) THEN <<>>
  ELSE LET gone == SelectSeq(prev[1], LAMBDA e : e.event_id \notin Keys(curr))
       IN  DiffLoop(prev[1], curr, <<>>)
           \o [i \in DOMAIN gone |->
                 [type |-> "removed", event_id |-> gone[i].event_id,
                  data |-> gone[i].data]]

\* the records grouped as the report prints them: the new events first,
\* then the changed ones
diff_and_print_new_first(prev, curr) ==
  IF Falsy(prev) THEN <<>>
  ELSE LET found == DiffLoop(prev[1], curr, <<>>)
       IN  SelectSeq(found, LAMBDA c : c.type = "new")
           \o SelectSeq(found, LAMBDA c : c.type = "changed")

\* prev is None or Some(map); curr is a map
diff_and_print(prev, curr) ==
  IF Falsy(prev) THEN <<>> ELSE DiffLoop(prev[1], curr, <<>>)

\* ------------------------------------------------------------ the state
VARIABLES
  last_version,     \* self.last_version: NoVersion or a version
  last_snapshot,    \* self.last_snapshot: None or Some(map)
  callback,         \* whether the caller registered a callback
  pc,               \* where the loop is suspended
  current_version,  \* local of monitor_odds_changes
  current_parsed,   \* local of monitor_odds_changes
  changes,          \* local of monitor_odds_changes
  \* what the tick in progress (or the last tick, when pc = "sleep") did:
  memory_percent,   \* psutil.virtual_memory().percent seen by the tick
  last_version0,    \* self.last_version when the tick began
  last_snapshot0,   \* self.last_snapshot when the tick began
  probe_data,       \* what get_probe returned
  snapshot_kind,    \* the kind of what get_snapshot returned, "none" when
                    \* it was not called
  prev,             \* the baseline handed to diff_and_print, if called
  dispatched,       \* the change lists handed to the callback
  callback_raised,  \* whether the callback raised
  returned,         \* None while the tick runs, Some(list) once it returned
  refetch_failed,   \* the version whose fetch failed in the tick before
  last_probed,      \* the version the last probe that returned one returned
  \* one call of diff_and_print on its own:
  d_pc,             \* "off", "call" (arguments chosen) or "done"
  d_prev,           \* its argument prev: None or Some(map)
  d_curr,           \* its argument curr
  d_changes,        \* the list it returned
  \* the scripted run: what each tick so far did
  history,
  \* the Telegram bot (src/telegram_bot.py), its users' loops on one monitor:
  b_monitor,        \* whether self.monitor was created
  b_tasks,          \* the keys of self.monitor_tasks
  b_pc,             \* per user, where the user's task is suspended
  b_last_version,   \* self.monitor.last_version
  b_last_snapshot,  \* self.monitor.last_snapshot
  b_session,        \* self.monitor.session: "none", "open" or "closed"
  b_cancelled,      \* per user, whether the user's task was cancelled
  b_own,            \* per user, the baseline the user's loop last left
  b_live,           \* per user, the tasks created for them and not finished
  b_restarted,      \* per user, whether their task was started after a /stop
  b_reply,          \* per user, what their last /monitor or /stop answered
  b_upstream,       \* the version and the price the upstream serves
  b_expect,         \* the change the upstream made under both users' loops
  b_heard,          \* per user, how far that change got in their loop
  \* one call of a function of the extractor or the prober on its own:
  f_pc,             \* "off", "call" (argument chosen) or "done"
  f_in,             \* its argument
  f_out,            \* what it returned
  \* one call of BCGameScraper.scrape_all_odds (src/bc_game_scraper.py):
  s_pc,             \* "off", "fetch" (snapshot requested) or "done"
  s_snapshot,       \* what fetch_events_snapshot returned
  s_details,        \* per event, what the detail endpoint holds for it
  s_requested,      \* the events whose detail was requested
  s_events_list,    \* events_list before the filter
  s_result,         \* the list scrape_all_odds returned
  \* MemoryManager (src/memory_manager.py):
  m_is_monitoring,  \* self._is_monitoring
  m_task,           \* self._monitoring_task: "none", "new", "sleep", "done"
  m_stop,           \* "await" while stop_monitoring waits for the task
  m_alive,          \* the _monitor_loop tasks created and not finished
  m_calls,          \* the calls of start_monitoring and stop_monitoring
  m_returned,       \* what the last of these calls did
  m_cleanups,       \* the runs of cleanup_memory
  m_memory_mb,      \* memory_mb at the last check
  \* the cache file of BCGameVersionManager (src/version_manager.py):
  v_cache,          \* what the file holds, see CacheFile
  v_saved,          \* the version info of the last save_version_cache
  v_saves           \* the calls of save_version_cache

vars ==
  <<last_version, last_snapshot, callback, pc, current_version,
    current_parsed, changes,
    memory_percent, last_version0, last_snapshot0, probe_data,
    snapshot_kind, prev, dispatched, callback_raised, returned,
    refetch_failed, last_probed, d_pc, d_prev, d_curr, d_changes, history,
    b_monitor, b_tasks, b_pc, b_last_version, b_last_snapshot, b_session,
    b_cancelled, b_own, b_live, b_restarted, b_reply, b_upstream,
    b_expect, b_heard, f_pc, f_in, f_out,
    s_pc, s_snapshot, s_details, s_requested, s_events_list, s_result,
    m_is_monitoring, m_task, m_stop, m_alive, m_calls, m_returned,
    m_cleanups, m_memory_mb, v_cache, v_saved, v_saves>>

dvars == <<d_pc, d_prev, d_curr, d_changes>>

svars == <<history>>

fvars == <<f_pc, f_in, f_out>>

scvars ==
  <<s_pc, s_snapshot, s_details, s_requested, s_events_list, s_result>>

\* what the bot's commands keep of a user, and the upstream with what is
\* expected of the loops
cvars == <<b_live, b_restarted, b_reply>>

uvars == <<b_upstream, b_expect, b_heard>>

mvars ==
  <<m_is_monitoring, m_task, m_stop, m_alive, m_calls, m_returned,
    m_cleanups, m_memory_mb>>

kvars == <<v_cache, v_saved, v_saves>>

bvars ==
  <<b_monitor, b_tasks, b_pc, b_last_version, b_last_snapshot, b_session,
    b_cancelled, b_own, cvars, uvars>>

NoProbe    == [kind |-> "none", version |-> NoVersion]
NotCalled  == <<>>

MemoryPercents == {memory_threshold, memory_threshold + 1}

\* BCGameMonitor.__init__, and the loop about to run its first tick
InitMonitor ==
  /\ last_version = NoVersion
  /\ last_snapshot = None
  /\ callback \in BOOLEAN
  /\ pc = "sleep"
  /\ current_version = NoVersion
  /\ current_parsed = <<>>
  /\ changes = <<>>
  /\ memory_percent = memory_threshold
  /\ last_version0 = NoVersion
  /\ last_snapshot0 = None
  /\ probe_data = NoProbe
  /\ snapshot_kind = "none"
  /\ prev = NotCalled
  /\ dispatched = <<>>
  /\ callback_raised = FALSE
  /\ returned = None
  /\ refetch_failed = NoVersion
  /\ last_probed = NoVersion

\* the users of the bot
Users == {"u1", "u2"}

\* TelegramBot.__init__: no task, no monitor yet; the fields of the monitor
\* hold what BCGameMonitor.__init__ will give them
InitBot ==
  /\ b_monitor = FALSE
  /\ b_tasks = {}
  /\ b_pc = [u \in Users |-> "none"]
  /\ b_last_version = NoVersion
  /\ b_last_snapshot = None
  /\ b_session = "none"
  /\ b_cancelled = [u \in Users |-> FALSE]
  /\ b_own = [u \in Users |-> <<NoVersion, None>>]
  /\ b_live = [u \in Users |-> 0]
  /\ b_restarted = [u \in Users |-> FALSE]
  /\ b_reply = [u \in Users |-> "none"]
  /\ b_upstream = [version |-> 1, odds |-> BaseRecord.odds_1]
  /\ b_expect = None
  /\ b_heard = [u \in Users |-> "no"]

\* no call of diff_and_print on its own
InitNoDiff ==
  /\ d_pc = "off"
  /\ d_prev = None
  /\ d_curr = <<>>
  /\ d_changes = <<>>

\* no call of an extractor or prober function on its own
InitNoCall ==
  /\ f_pc = "off"
  /\ f_in = <<>>
  /\ f_out = <<>>

\* no call of scrape_all_odds
InitNoScrape ==
  /\ s_pc = "off"
  /\ s_snapshot = None
  /\ s_details = <<>>
  /\ s_requested = {}
  /\ s_events_list = <<>>
  /\ s_result = <<>>

\* MemoryManager.__init__: no task, not monitoring
InitMemoryManager ==
  /\ m_is_monitoring = FALSE
  /\ m_task = "none"
  /\ m_stop = "idle"
  /\ m_alive = 0
  /\ m_calls = 0
  /\ m_returned = "none"
  /\ m_cleanups = 0
  /\ m_memory_mb = 0

\* what is at the path of the cache file: no file ("absent"), a file that
\* json.load cannot read or that holds no object ("corrupt"), or a JSON
\* object ("json") with its keys best_version and update_history, each None
\* when the object lacks it
CacheFile(kind, best_version, update_history) ==
  [kind |-> kind, best_version |-> best_version,
   update_history |-> update_history]

\* no cache file, nothing saved
InitNoCache ==
  /\ v_cache = CacheFile("absent", None, None)
  /\ v_saved = None
  /\ v_saves = 0

InitOthers ==
  /\ InitMemoryManager
  /\ InitNoCache

\* what the runs of the poll loop leave alone
InitRest ==
  /\ InitNoCall
  /\ InitNoScrape
  /\ InitOthers

Init ==
  /\ InitMonitor
  /\ InitNoDiff
  /\ history = <<>>
  /\ InitBot
  /\ InitRest

\* cleanup_memory: the baseline is dropped when it is truthy
cleanup_memory(snapshot) ==
  IF ~Falsy(snapshot) THEN None ELSE snapshot

\* check_memory_usage
check_memory_usage(percent, snapshot) ==
  IF percent > memory_threshold THEN cleanup_memory(snapshot) ELSE snapshot

\* the version whose fetch the finished tick saw fail
FailedFetchVersion ==
  IF returned # None /\ snapshot_kind \in {"error", "empty"}
    THEN last_version ELSE NoVersion

\* `return x` of monitor_odds_changes; the loop then sleeps
Return(x) ==
  /\ returned' = Some(x)
  /\ pc' = "sleep"

\* The loop wakes up and calls monitor_odds_changes: the memory check, then
\* the probe request is sent.
TickStartWith(percent) ==
  /\ pc = "sleep"
  /\ memory_percent' = percent
  /\ last_snapshot' = check_memory_usage(percent, last_snapshot)
  /\ last_version0' = last_version
  /\ last_snapshot0' = last_snapshot
  /\ refetch_failed' = FailedFetchVersion
  /\ probe_data' = NoProbe
  /\ snapshot_kind' = "none"
  /\ prev' = NotCalled
  /\ dispatched' = <<>>
  /\ callback_raised' = FALSE
  /\ returned' = None
  /\ current_version' = NoVersion
  /\ current_parsed' = <<>>
  /\ changes' = <<>>
  /\ pc' = "probe"
  /\ UNCHANGED <<last_version, callback, last_probed>>

TickStart ==
  /\ \E percent \in MemoryPercents : TickStartWith(percent)
  /\ UNCHANGED <<dvars, svars, bvars, fvars, scvars, mvars, kvars>>

\* versions compared by order: only a higher version counts as a change
VersionChanged_monotonic(last, current) ==
  last = NoVersion \/ current > last

\* the first probe only records the version: seed and skip
VersionChanged_skip_first(last, current) ==
  last # NoVersion /\ last # current

\* step 2 of monitor_odds_changes: the snapshot is fetched when no version
\* was recorded yet or the probed one is another one
VersionChanged(last, current) ==
  last = NoVersion \/ last # current

\* the probed version is never written to last_version
RecordVersion_never(last, current) ==
  last

\* only the first probed version is written to last_version
RecordVersion_first_only(last, current) ==
  IF last = NoVersion THEN current ELSE last

\* what step 2 writes to last_version when it goes on to the fetch: the
\* probed version, on the first probe and on a change alike
RecordVersion(last, current) ==
  current

\* get_probe returns: steps 1 and 2 of monitor_odds_changes
ProbeReturnWith(p) ==
  /\ pc = "probe"
  /\ probe_data' = p
  /\ IF p.kind = "malformed"
       THEN \* the exception leaves monitor_odds_changes and is caught
            \* by run_continuous_monitoring outside its while loop
            /\ pc' = "stopped"
            /\ UNCHANGED <<last_version, current_version, returned>>
     ELSE IF p.kind # "ok"
       THEN \* `not probe_data`, or no truthy version
            /\ Return(<<>>)
            /\ UNCHANGED <<last_version, current_version>>
     ELSE IF VersionChanged(last_version, p.version)
       THEN /\ current_version' = p.version
            /\ last_version' = RecordVersion(last_version, p.version)
            /\ pc' = "snapshot"
            /\ UNCHANGED returned
       ELSE /\ current_version' = p.version
            /\ Return(<<>>)
            /\ UNCHANGED last_version
  /\ last_probed' = IF p.kind = "ok" THEN p.version ELSE last_probed
  /\ UNCHANGED <<last_snapshot, callback, current_parsed, changes,
                 memory_percent, last_version0, last_snapshot0,
                 snapshot_kind, prev, dispatched, callback_raised,
                 refetch_failed>>

ProbeReturn ==
  /\ \E p \in ProbeResults : ProbeReturnWith(p)
  /\ UNCHANGED <<dvars, svars, bvars, fvars, scvars, mvars, kvars>>

\* the callback is called although the change list is empty
Dispatches_empty_list(cb, found) ==
  cb

\* step 7 of monitor_odds_changes: `if callback and changes`
Dispatches(cb, found) ==
  cb /\ found # <<>>

\* the baseline is replaced only when the diff found changes
NewBaseline_only_on_change(old, parsed, found) ==
  IF found # <<>> THEN Some(parsed) ELSE old

\* step 6 of monitor_odds_changes: self.last_snapshot = current_parsed
NewBaseline(old, parsed, found) ==
  Some(parsed)

\* get_snapshot returns: steps 3 to 7 of monitor_odds_changes, up to the
\* call of the callback
SnapshotReturnWith(s) ==
  /\ pc = "snapshot"
  /\ snapshot_kind' = s.kind
  /\ IF s.kind \in {"error", "empty"}
       THEN \* `not snapshot_data`
            /\ Return(<<>>)
            /\ UNCHANGED <<last_snapshot, current_parsed, changes,
                           prev, dispatched>>
       ELSE LET parsed == parse_snapshot_data(s)
                found == diff_and_print(last_snapshot, parsed)
            IN  /\ current_parsed' = parsed
                /\ prev' = Some(last_snapshot)
                /\ changes' = found
                /\ last_snapshot' = NewBaseline(last_snapshot, parsed, found)
                /\ IF Dispatches(callback, found)
                     THEN /\ dispatched' = Append(dispatched, found)
                          /\ pc' = "callback"
                          /\ UNCHANGED returned
                     ELSE /\ Return(found)
                          /\ UNCHANGED dispatched
  /\ UNCHANGED <<last_version, callback, current_version, memory_percent,
                 last_version0, last_snapshot0, probe_data,
                 callback_raised, refetch_failed, last_probed>>

SnapshotReturn ==
  /\ \E s \in SnapshotResults : SnapshotReturnWith(s)
  /\ UNCHANGED <<dvars, svars, bvars, fvars, scvars, mvars, kvars>>

\* the callback's exception leaves monitor_odds_changes and ends the loop
callback_exit_unguarded(raised) ==
  IF raised THEN "stopped" ELSE "sleep"

\* the try/except around `await callback(changes)`: where the loop is after
\* the callback returned or raised
callback_exit(raised) ==
  "sleep"

\* the callback returns or raises; a raised exception is caught and logged
CallbackReturnWith(raised) ==
  /\ pc = "callback"
  /\ callback_raised' = raised
  /\ pc' = callback_exit(raised)
  /\ returned' = IF callback_exit(raised) = "sleep"
                   THEN Some(changes) ELSE returned
  /\ UNCHANGED <<last_version, last_snapshot, callback, current_version,
                 current_parsed, changes, memory_percent, last_version0,
                 last_snapshot0, probe_data, snapshot_kind, prev,
                 dispatched, refetch_failed, last_probed>>

CallbackReturn ==
  /\ \E raised \in BOOLEAN : CallbackReturnWith(raised)
  /\ UNCHANGED <<dvars, svars, bvars, fvars, scvars, mvars, kvars>>

Next ==
  \/ TickStart
  \/ ProbeReturn
  \/ SnapshotReturn
  \/ CallbackReturn

Spec == Init /\ [][Next]_vars

\* ---------------------------------------------------- a scripted run
\* The versions the probes of the run return, one per tick: a version, the
\* same again, a second one, a third one.
Script == <<1, 1, 2, 3>>

\* The records of the snapshots of the run: the base record or the base
\* record with one price moved.
ScriptRecords ==
  {r \in LoopRecords : r.league = BaseRecord.league}

\* The event lists of the snapshots of the run: event "A", alone or
\* followed by event "B" with the base record.
ScriptEventLists ==
  {<<RawOf("A", r)>> : r \in ScriptRecords}
  \cup {<<RawOf("A", r), RawOf("B", BaseRecord)>> : r \in ScriptRecords}

\* every fetch of the run succeeds
ScriptSnapshots ==
  {[kind |-> "ok", events |-> es] : es \in ScriptEventLists}

\* the tick whose probe is out or just came back
Tick == Len(history)

InitScript ==
  /\ InitMonitor
  /\ callback = TRUE
  /\ InitNoDiff
  /\ history = <<>>
  /\ InitBot
  /\ InitRest

\* the loop starts a tick as long as the script has a probe for it
ScriptTickStart ==
  /\ Tick < Len(Script)
  /\ \E percent \in MemoryPercents : TickStartWith(percent)
  /\ UNCHANGED <<dvars, svars, bvars, fvars, scvars, mvars, kvars>>

\* the probe of the tick returns the version of the script
ScriptProbeReturn ==
  /\ ProbeReturnWith([kind |-> "ok", version |-> Script[Tick + 1]])
  /\ history' = Append(history,
                  [version |-> last_version',
                   fetched |-> (pc' = "snapshot"),
                   parsed |-> <<>>,
                   dispatched |-> <<>>])
  /\ UNCHANGED <<dvars, bvars, fvars, scvars, mvars, kvars>>

\* the fetch of the tick returns a snapshot
ScriptSnapshotReturn ==
  /\ \E s \in ScriptSnapshots : SnapshotReturnWith(s)
  /\ history' = [history EXCEPT ![Tick] =
                   [@ EXCEPT !.parsed = current_parsed',
                             !.dispatched = dispatched']]
  /\ UNCHANGED <<dvars, bvars, fvars, scvars, mvars, kvars>>

ScriptCallbackReturn ==
  /\ \E raised \in BOOLEAN : CallbackReturnWith(raised)
  /\ UNCHANGED <<dvars, svars, bvars, fvars, scvars, mvars, kvars>>

NextScript ==
  \/ ScriptTickStart
  \/ ScriptProbeReturn
  \/ ScriptSnapshotReturn
  \/ ScriptCallbackReturn

SpecScript == InitScript /\ [][NextScript]_vars

\* ------------------------------------------- diff_and_print on its own
\* The maps the extractor can hand to diff_and_print.
InputMaps ==
  {parse_snapshot_data([kind |-> "ok", events |-> es]) :
     es \in EventListsOf(RawEventsOf(InputRecords))}

loopvars ==
  <<last_version, last_snapshot, callback, pc, current_version,
    current_parsed, changes,
    memory_percent, last_version0, last_snapshot0, probe_data,
    snapshot_kind, prev, dispatched, callback_raised, returned,
    refetch_failed, last_probed>>

InitDiff ==
  /\ InitMonitor
  /\ callback = FALSE
  /\ d_pc = "call"
  /\ d_prev \in {None} \cup {Some(m) : m \in InputMaps}
  /\ d_curr \in InputMaps
  /\ d_changes = <<>>
  /\ history = <<>>
  /\ InitBot
  /\ InitRest

DiffApply ==
  /\ d_pc = "call"
  /\ d_changes' = diff_and_print(d_prev, d_curr)
  /\ d_pc' = "done"
  /\ UNCHANGED <<d_prev, d_curr, loopvars, svars, bvars, fvars, scvars, mvars, kvars>>

NextDiff == DiffApply

SpecDiff == InitDiff /\ [][NextDiff]_vars

\* ------------------------------------------------------ the Telegram bot
\* TelegramBot (src/telegram_bot.py) runs one task per monitoring user; every
\* task runs run_continuous_monitoring on the one BCGameMonitor the bot
\* keeps in self.monitor.  A task cancelled by /stop gets CancelledError at
\* the await it is suspended in, on its next step, before any later command
\* is handled; CancelledError is not an Exception (Python 3.8 and later).

\* what get_probe hands back to a loop of the bot: a failure, or the
\* version the upstream serves
BotProbeResults ==
  {p \in ProbeResults :
     \/ p.kind \in {"error", "malformed"}
     \/ p.kind = "ok" /\ p.version = b_upstream.version}

\* the snapshots of the bot's loops hold event "A" with one price moving
BotRecords ==
  {r \in ScriptRecords : r.odds_x = BaseRecord.odds_x
                         /\ r.odds_2 = BaseRecord.odds_2}

\* what get_snapshot hands back to a loop of the bot: a failure, or the
\* snapshot the upstream serves
BotSnapshots ==
  {[kind |-> "error", events |-> <<>>]}
  \cup {[kind |-> "ok", events |-> <<RawOf("A", r)>>] :
          r \in {x \in BotRecords : x.odds_1 = b_upstream.odds}}

\* a request on a session that is closed raises inside get_probe and
\* get_snapshot, which return None
Reachable(results) ==
  IF b_session = "open" THEN results
  ELSE {x \in results : x.kind = "error"}

InitBotSpec ==
  /\ InitMonitor
  /\ callback = FALSE
  /\ InitNoDiff
  /\ history = <<>>
  /\ InitBot
  /\ InitRest

\* the user's task is running: in monitor_tasks and not done()
Running(u) == u \in b_tasks /\ b_pc[u] # "done"

\* both users' loops are in their ticks
Concurrent ==
  \A u \in Users : Running(u) /\ b_pc[u] # "start"

\* the baseline holds event "A" as the upstream serves it
InBaseline ==
  /\ b_last_snapshot # None
  /\ "A" \in Keys(b_last_snapshot[1])
  /\ Data(b_last_snapshot[1], "A").odds_1 = b_upstream.odds

\* nothing is expected of the loops any more: a request failed, a task
\* ended or the baseline was cleared
Void ==
  /\ b_expect' = None
  /\ b_heard' = [u \in Users |-> "no"]

\* the upstream publishes a new version, with the price of event "A"
\* changed or not
UpstreamChange ==
  /\ b_upstream.version < MaxVersion
  /\ \E o \in Odds :
       /\ b_upstream' = [version |-> b_upstream.version + 1, odds |-> o]
       /\ b_expect' =
            IF Concurrent /\ InBaseline /\ o # b_upstream.odds
              THEN Some(ChangedChange(
                          "A", Data(b_last_snapshot[1], "A"),
                          [Data(b_last_snapshot[1], "A") EXCEPT !.odds_1 = o]))
              ELSE None
  /\ b_heard' = [u \in Users |-> "no"]
  /\ UNCHANGED <<b_monitor, b_tasks, b_pc, b_last_version, b_last_snapshot,
                 b_session, b_cancelled, b_own, cvars,
                 loopvars, dvars, svars, fvars, scvars, mvars, kvars>>

\* /monitor finds no task of the user that is still running
AlreadyMonitoring_never(u) == FALSE

\* the check of /monitor: user_id in monitor_tasks and the task not done()
AlreadyMonitoring(u) == Running(u)

\* /monitor: refused while the user's task runs, a new task otherwise
monitor_command(u) ==
  IF AlreadyMonitoring(u)
    THEN /\ b_reply' = [b_reply EXCEPT ![u] = "already"]
         /\ UNCHANGED <<b_monitor, b_tasks, b_pc, b_last_version,
                        b_last_snapshot, b_session, b_cancelled, b_own,
                        b_live, b_restarted, uvars,
                        loopvars, dvars, svars, fvars, scvars, mvars, kvars>>
    ELSE /\ b_tasks' = b_tasks \cup {u}
         /\ b_pc' = [b_pc EXCEPT ![u] = "start"]
         /\ b_cancelled' = [b_cancelled EXCEPT ![u] = FALSE]
         /\ b_live' = [b_live EXCEPT ![u] = @ + 1]
         /\ b_restarted' = [b_restarted EXCEPT ![u] = b_cancelled[u]]
         /\ b_reply' = [b_reply EXCEPT ![u] = "started"]
         /\ UNCHANGED <<b_monitor, b_last_version, b_last_snapshot,
                        b_session, b_own, uvars,
                        loopvars, dvars, svars, fvars, scvars, mvars, kvars>>

\* get_probe's `except Exception` takes the cancellation for a failed probe
\* and the tick returns to the loop
cancel_exit_swallowed(at) ==
  IF at = "probe" THEN "sleep" ELSE "done"

\* where a task is after CancelledError was thrown into it at an await:
\* nothing on the way catches it before run_continuous_monitoring's
\* `except asyncio.CancelledError`, which is outside the while loop
cancel_exit(at) ==
  "done"

\* /stop: nothing but an answer when the user has no running task;
\* otherwise cancel the user's task and forget it; the task unwinds through
\* `async with self.monitor`, whose __aexit__ closes self.monitor.session
stop_command(u) ==
  IF ~Running(u)
    THEN /\ b_reply' = [b_reply EXCEPT ![u] = "idle"]
         /\ UNCHANGED <<b_monitor, b_tasks, b_pc, b_last_version,
                        b_last_snapshot, b_session, b_cancelled, b_own,
                        b_live, b_restarted, uvars,
                        loopvars, dvars, svars, fvars, scvars, mvars, kvars>>
    ELSE /\ b_tasks' = b_tasks \ {u}
         /\ b_cancelled' = [b_cancelled EXCEPT ![u] = TRUE]
         /\ b_pc' = [b_pc EXCEPT ![u] = cancel_exit(b_pc[u])]
         /\ b_session' = IF b_pc[u] # "start" /\ cancel_exit(b_pc[u]) = "done"
                           THEN "closed" ELSE b_session
         /\ b_live' = [b_live EXCEPT ![u] =
                         IF cancel_exit(b_pc[u]) = "done" THEN @ - 1 ELSE @]
         /\ b_restarted' = [b_restarted EXCEPT ![u] = FALSE]
         /\ b_reply' = [b_reply EXCEPT ![u] = "stopped"]
         /\ Void
         /\ UNCHANGED <<b_monitor, b_last_version, b_last_snapshot, b_own,
                        b_upstream, loopvars, dvars, svars, fvars, scvars, mvars, kvars>>

\* the start of a tick of the user's loop: check_memory_usage, then the
\* probe request
BotTick(u) ==
  /\ \E percent \in MemoryPercents :
       /\ b_last_snapshot' = check_memory_usage(percent, b_last_snapshot)
       /\ IF percent > memory_threshold
            THEN Void ELSE UNCHANGED <<b_expect, b_heard>>
  /\ b_pc' = [b_pc EXCEPT ![u] = "probe"]
  /\ b_own' = [b_own EXCEPT ![u] = <<b_last_version, b_last_snapshot'>>]

\* _run_monitor_for_user starts: the monitor is created if there is none,
\* __aenter__ opens a new session, the loop runs its first tick
run_monitor_for_user(u) ==
  /\ b_pc[u] = "start"
  /\ b_monitor' = TRUE
  /\ b_session' = "open"
  /\ BotTick(u)
  /\ UNCHANGED <<b_tasks, b_last_version, b_cancelled, cvars, b_upstream,
                 loopvars, dvars, svars, fvars, scvars, mvars, kvars>>

\* the loop of the user wakes up from its sleep
BotTickStart(u) ==
  /\ b_pc[u] = "sleep"
  /\ BotTick(u)
  /\ UNCHANGED <<b_monitor, b_tasks, b_last_version, b_session,
                 b_cancelled, cvars, b_upstream,
                 loopvars, dvars, svars, fvars, scvars, mvars, kvars>>

\* the user's loop has seen the version of the expected change
Probed(u) ==
  /\ UNCHANGED b_expect
  /\ b_heard' = IF b_expect # None /\ b_heard[u] = "no"
                  THEN [b_heard EXCEPT ![u] = "probed"] ELSE b_heard

\* get_probe returns to the user's loop
BotProbeReturn(u) ==
  /\ b_pc[u] = "probe"
  /\ \E p \in Reachable(BotProbeResults) :
       IF p.kind = "malformed"
         THEN \* the loop ends, __aexit__ closes the session
              /\ b_pc' = [b_pc EXCEPT ![u] = "done"]
              /\ b_session' = "closed"
              /\ b_live' = [b_live EXCEPT ![u] = @ - 1]
              /\ Void
              /\ UNCHANGED <<b_last_version, b_own>>
       ELSE IF p.kind = "ok" /\ VersionChanged(b_last_version, p.version)
         THEN /\ b_last_version' = p.version
              /\ b_pc' = [b_pc EXCEPT ![u] = "snapshot"]
              /\ b_own' = [b_own EXCEPT ![u] = <<p.version, b_last_snapshot>>]
              /\ Probed(u)
              /\ UNCHANGED <<b_session, b_live>>
         ELSE /\ b_pc' = [b_pc EXCEPT ![u] = "sleep"]
              /\ IF p.kind = "ok" THEN Probed(u) ELSE Void
              /\ UNCHANGED <<b_last_version, b_own, b_session, b_live>>
  /\ UNCHANGED <<b_monitor, b_tasks, b_last_snapshot, b_cancelled,
                 b_restarted, b_reply, b_upstream,
                 loopvars, dvars, svars, fvars, scvars, mvars, kvars>>

\* the change list found holds the expected change
Holds(found) ==
  /\ b_expect # None
  /\ \E i \in DOMAIN found : found[i] = b_expect[1]

\* get_snapshot returns to the user's loop
BotSnapshotReturn(u) ==
  /\ b_pc[u] = "snapshot"
  /\ \E s \in Reachable(BotSnapshots) :
       IF s.kind = "error"
         THEN /\ b_pc' = [b_pc EXCEPT ![u] = "sleep"]
              /\ Void
              /\ UNCHANGED <<b_last_snapshot, b_own>>
         ELSE LET parsed == parse_snapshot_data(s)
                  found == diff_and_print(b_last_snapshot, parsed)
              IN  /\ b_last_snapshot' =
                       NewBaseline(b_last_snapshot, parsed, found)
                  /\ b_own' = [b_own EXCEPT
                                 ![u] = <<b_last_version, b_last_snapshot'>>]
                  /\ b_pc' = [b_pc EXCEPT ![u] =
                                IF Dispatches(TRUE, found)
                                  THEN "callback" ELSE "sleep"]
                  /\ b_heard' = IF Dispatches(TRUE, found) /\ Holds(found)
                                  THEN [b_heard EXCEPT ![u] = "told"]
                                  ELSE b_heard
                  /\ UNCHANGED b_expect
  /\ UNCHANGED <<b_monitor, b_tasks, b_last_version, b_session,
                 b_cancelled, cvars, b_upstream,
                 loopvars, dvars, svars, fvars, scvars, mvars, kvars>>

\* on_odds_change returns; it catches what send_message raises
BotCallbackReturn(u) ==
  /\ b_pc[u] = "callback"
  /\ b_pc' = [b_pc EXCEPT ![u] = callback_exit(FALSE)]
  /\ UNCHANGED <<b_monitor, b_tasks, b_last_version, b_last_snapshot,
                 b_session, b_cancelled, b_own, cvars, uvars,
                 loopvars, dvars, svars, fvars, scvars, mvars, kvars>>

NextBot ==
  \/ UpstreamChange
  \/ \E u \in Users :
       \/ monitor_command(u)
       \/ stop_command(u)
       \/ run_monitor_for_user(u)
       \/ BotTickStart(u)
       \/ BotProbeReturn(u)
       \/ BotSnapshotReturn(u)
       \/ BotCallbackReturn(u)

SpecBot == InitBotSpec /\ [][NextBot]_vars

\* ------------------------------------- extractor functions on their own
\* One call of a function: f_in is drawn by Init, the action applies the
\* function and leaves what it returned in f_out.
InitCall(inputs) ==
  /\ InitMonitor
  /\ callback = FALSE
  /\ InitNoDiff
  /\ history = <<>>
  /\ InitBot
  /\ InitNoScrape
  /\ InitOthers
  /\ f_pc = "call"
  /\ f_in \in inputs
  /\ f_out = <<>>

Called(out) ==
  /\ f_pc = "call"
  /\ f_out' = out
  /\ f_pc' = "done"
  /\ UNCHANGED <<f_in, loopvars, dvars, svars, bvars, scvars, mvars, kvars>>

\* ------------------------------------------------ league_name_from_maps
\* A name is a string: a sequence of letters.
Alphabet == {"a", "b"}

Strings(n) == UNION {[1..k -> Alphabet] : k \in 0..n}

\* Python's `sub in s` on strings
Contains(sub, s) ==
  \E i \in 0..(Len(s) - Len(sub)) : SubSeq(s, i + 1, i + Len(sub)) = sub

\* the literals "Unknown League" and the dash between category and
\* tournament, one symbol each
UnknownLeague == <<"Unknown League">>
Separator     == <<" - ">>

\* a tournament entry: its name, if it has one, and whether it has a
\* category_id
Tournaments ==
  [name : {None} \cup {Some(n) : n \in Strings(MaxName) \ {<<>>}},
   category_id : BOOLEAN]

\* a category entry: its name, if it has one
Categories == [name : {None} \cup {Some(n) : n \in Strings(MaxName)}]

\* The arguments of league_name_from_maps: whether desc has a
\* tournament_id, the entry of `tournaments` under that id, if any, and the
\* entry of `categories` under the tournament's category_id, if any.
LeagueInputs ==
  [desc : [tournament_id : BOOLEAN],
   tournaments : {None} \cup {Some(t) : t \in Tournaments},
   categories : {None} \cup {Some(c) : c \in Categories}]

\* `{}`: a tournament or category that did not resolve
EmptyEntry == [name |-> None, category_id |-> FALSE]

\* the category name is prefixed whenever there is one
league_name_from_maps_always_prefix(tournaments, categories, desc) ==
  LET t == IF desc.tournament_id /\ tournaments # None
             THEN tournaments[1] ELSE EmptyEntry
      league == IF t.name # None THEN t.name[1] ELSE UnknownLeague
      cat == IF categories # None THEN categories[1] ELSE EmptyEntry
  IN  IF t.category_id /\ cat.name # None /\ cat.name[1] # <<>>
        THEN cat.name[1] \o Separator \o league
        ELSE league

league_name_from_maps(tournaments, categories, desc) ==
  LET t == IF desc.tournament_id /\ tournaments # None
             THEN tournaments[1] ELSE EmptyEntry
      league == IF t.name # None THEN t.name[1] ELSE UnknownLeague
      cid == t.category_id
      cat == IF categories # None THEN categories[1] ELSE EmptyEntry
      country == cat.name
  IN  IF cid /\ country # None /\ country[1] # <<>>
             /\ ~Contains(country[1], league)
        THEN country[1] \o Separator \o league
        ELSE league

InitLeague == InitCall(LeagueInputs)

LeagueApply ==
  Called(league_name_from_maps(f_in.tournaments, f_in.categories, f_in.desc))

NextLeague == LeagueApply

SpecLeague == InitLeague /\ [][NextLeague]_vars

\* ------------------------------------- parse_max_age, get_latest_version
\* A Cache-Control header is a list of directives: a max-age directive with
\* the characters after its "=", as many of them as are digits, or any
\* other directive.  The empty list is the header that is missing or empty.
DigitStrings == UNION {[1..k -> 0..MaxDigit] : k \in 0..MaxDigits}

Directives ==
  {[name |-> "other", digits |-> <<>>]}
  \cup {[name |-> "max-age", digits |-> ds] : ds \in DigitStrings}

CacheControls ==
  {<<>>}
  \cup {<<d>> : d \in Directives}
  \cup (Directives \X Directives)

\* int(): the number a string of decimal digits denotes
RECURSIVE int(_)
int(ds) ==
  IF ds = <<>> THEN 0
  ELSE 10 * int(SubSeq(ds, 1, Len(ds) - 1)) + ds[Len(ds)]

\* the directives that r"max-age=(\d+)" matches
Matches(cache_control) ==
  {i \in DOMAIN cache_control :
     cache_control[i].name = "max-age" /\ cache_control[i].digits # <<>>}

\* parse_max_age: None, or the value of the first match
parse_max_age(cache_control) ==
  IF Matches(cache_control) = {} THEN None
  ELSE LET i == CHOOSE k \in Matches(cache_control) :
                  \A l \in Matches(cache_control) : k <= l
       IN  Some(int(cache_control[i].digits))

\* `parse_max_age(cc) or DEFAULT_INTERVAL`: None and 0 are both falsy
interval(cc) ==
  LET max_age == parse_max_age(cc)
  IN  IF max_age # None /\ max_age[1] # 0
        THEN max_age[1] ELSE DEFAULT_INTERVAL

InitInterval == InitCall(CacheControls)

\* get_latest_version, as far as its third result goes
IntervalApply == Called(interval(f_in))

NextInterval == IntervalApply

SpecInterval == InitInterval /\ [][NextInterval]_vars

\* ------------------------------------------------------ the 1X2 market
\* markets["1"] of an event of the list snapshot: a dict of lines, each a
\* dict from the outcome keys to {"k": price}.  An outcome key is absent
\* (Missing), present without a price (NoPrice) or present with its price.
OutcomeKeys == {"1", "X", "2", "3"}

NoPrice == -1

Lines ==
  [dict : {TRUE}, outcomes : [OutcomeKeys -> {Missing, NoPrice} \cup Odds]]

\* a line that is no dict
NotADict == [dict |-> FALSE, outcomes |-> [k \in OutcomeKeys |-> Missing]]

\* the line "1"/"X"/"2" with the prices of the base record
BaseLine ==
  [dict |-> TRUE,
   outcomes |-> [k \in OutcomeKeys |->
                   IF k = "3" THEN Missing ELSE BaseRecord.odds_1]]

\* the market of the base line alone
BaseMarket == [dict |-> TRUE, lines |-> <<BaseLine>>]

\* The markets fed in: one that is no dict, and the dicts of no line, of one
\* line, of a non-dict followed by a line, and of a line followed by the
\* base line.
Markets ==
  {[dict |-> FALSE, lines |-> <<>>], [dict |-> TRUE, lines |-> <<>>]}
  \cup {[dict |-> TRUE, lines |-> <<l>>] : l \in Lines}
  \cup {[dict |-> TRUE, lines |-> <<NotADict, l>>] : l \in Lines}
  \cup {[dict |-> TRUE, lines |-> <<l, BaseLine>>] : l \in Lines}

\* (outcomes.get(key) or {}).get("k"): the price or None (Missing)
K(outcomes, key) ==
  IF outcomes[key] \in Odds THEN outcomes[key] ELSE Missing

\* `a or b` on two prices
Or(a, b) == IF a # Missing THEN a ELSE b

\* the first line of the market that is a dict, if any
FirstLine(m) ==
  LET dicts == {i \in DOMAIN m.lines : m.lines[i].dict}
  IN  IF dicts = {} THEN None
      ELSE Some(m.lines[CHOOSE i \in dicts : \A j \in dicts : i <= j].outcomes)

\* no fallback: the line is always read as "1"/"X"/"2"
parse_1x2_no_fallback(m) ==
  IF ~m.dict \/ FirstLine(m) = None THEN None
  ELSE LET outcomes == FirstLine(m)[1]
       IN  Some(<<K(outcomes, "1"), K(outcomes, "X"), K(outcomes, "2")>>)

\* parse_1x2 of bc_game_monitor.py on m = markets.get("1"): None, or the
\* triple (home, draw, away)
parse_1x2(m) ==
  IF ~m.dict \/ FirstLine(m) = None THEN None
  ELSE LET outcomes == FirstLine(m)[1]
       IN  IF outcomes["X"] # Missing
             THEN Some(<<K(outcomes, "1"), K(outcomes, "X"),
                         Or(K(outcomes, "2"), K(outcomes, "3"))>>)
             ELSE Some(<<K(outcomes, "1"), K(outcomes, "2"),
                         Or(K(outcomes, "3"), K(outcomes, "2"))>>)

\* BCGameScraper.parse_snapshot_data on market_1 = markets['1'], a dict:
\* the triple (odds_1, odds_x, odds_2) it leaves its loop over the lines with
scraper_1x2(market_1) ==
  IF FirstLine(market_1) = None THEN Some(<<Missing, Missing, Missing>>)
  ELSE LET outcomes == FirstLine(market_1)[1]
           odds_x == K(outcomes, "X")
       IN  IF odds_x = Missing /\ outcomes["3"] # Missing
             THEN Some(<<K(outcomes, "1"), K(outcomes, "2"),
                         K(outcomes, "3")>>)
             ELSE Some(<<K(outcomes, "1"), odds_x, K(outcomes, "2")>>)

\* the market and the extractor that reads it
MarketInputs ==
  {[fn |-> "parse_1x2", m |-> m] : m \in Markets}
  \cup {[fn |-> "scraper", m |-> m] : m \in {n \in Markets : n.dict}}

InitMarket == InitCall(MarketInputs)

MarketApply ==
  /\ f_in.fn = "parse_1x2"
  /\ Called(parse_1x2(f_in.m))

ScraperMarketApply ==
  /\ f_in.fn = "scraper"
  /\ Called(scraper_1x2(f_in.m))

NextMarket ==
  \/ MarketApply
  \/ ScraperMarketApply

SpecMarket == InitMarket /\ [][NextMarket]_vars

\* ------------------------------------------- parse_snapshot_data alone
\* The events fed to parse_snapshot_data of bc_game_monitor.py on its own:
\* those of the poll loop, the base event with one outcome listed without
\* its 'odds', the base event with no outcome or no 'odds' at all, and the
\* base event with a null 'home'.
ExtractEvents ==
  RawEventsOf(LoopRecords)
  \cup {[RawOf(id, BaseRecord) EXCEPT ![f] = NoPrice] :
          id \in EventIds, f \in {"o1", "ox", "o2"}}
  \cup {[RawOf(id, BaseRecord) EXCEPT !.o1 = p, !.ox = p, !.o2 = p] :
          id \in EventIds, p \in {Missing, NoPrice}}
  \cup {[RawOf(id, BaseRecord) EXCEPT !.home = Null] : id \in EventIds}

ExtractInputs == EventListsOf(ExtractEvents)

InitExtract == InitCall(ExtractInputs)

ExtractApply ==
  Called(parse_snapshot_data([kind |-> "ok", events |-> f_in]))

NextExtract == ExtractApply

SpecExtract == InitExtract /\ [][NextExtract]_vars

\* ------------------------------------------ BCGameScraper.scrape_all_odds
\* One event of the list snapshot as BCGameScraper.parse_snapshot_data sees
\* it: whether event_data is a truthy dict, whether its sport resolves to
\* "1" (football), whether it is virtual or eSoccer, and markets['1'], if
\* markets has it.  League and team names are those of the base record.
ScrapeLines ==
  {l \in Lines :
     \A k \in OutcomeKeys : l.outcomes[k] \in {Missing, BaseRecord.odds_1}}

ScrapeMarkets ==
  {[dict |-> FALSE, lines |-> <<>>]}
  \cup {[dict |-> TRUE, lines |-> <<l>>] : l \in ScrapeLines}

\* an event that reaches the reading of its market
PlainEvent(id, market) ==
  [id |-> id, dict |-> TRUE, football |-> TRUE, virtual |-> FALSE,
   market |-> market]

ListEvents ==
  {PlainEvent(id, Some(m)) : id \in EventIds, m \in ScrapeMarkets}
  \cup {PlainEvent(id, None) : id \in EventIds}
  \cup {[PlainEvent(id, Some(BaseMarket)) EXCEPT ![f] = ~@] :
          id \in EventIds, f \in {"dict", "football", "virtual"}}

\* What fetch_events_snapshot hands back: None ("error"), an empty JSON
\* object ("empty"), or a JSON with events.
ListSnapshots ==
  {[kind |-> k, events |-> <<>>] : k \in {"error", "empty"}}
  \cup {[kind |-> "ok", events |-> es] : es \in EventListsOf(ListEvents)}

\* What the detail endpoint answers for an event: nothing (None), or the
\* outcomes '1', 'X', '2' of its 1X2 market with their odds.
Details ==
  {None, Some([odds_1 |-> BaseRecord.odds_1, odds_x |-> BaseRecord.odds_x,
               odds_2 |-> BaseRecord.odds_2])}

\* the record BCGameScraper.parse_snapshot_data appends for an event
ScrapedEvent(id, odds) ==
  [event_id |-> id, league |-> BaseRecord.league,
   home_team |-> BaseRecord.home_team, away_team |-> BaseRecord.away_team,
   odds_1 |-> odds[1], odds_x |-> odds[2], odds_2 |-> odds[3],
   need_detail |-> FALSE]

\* the body of the loop over the events, for one event: the records to
\* append.  markets['1'] that is no dict raises at .items(); the try around
\* the body skips the event.
ScrapeOne(e) ==
  IF ~e.dict \/ ~e.football \/ e.virtual \/ e.market = None THEN <<>>
  ELSE IF ~e.market[1].dict THEN <<>>
  ELSE LET odds == scraper_1x2(e.market[1])[1]
       IN  IF odds[1] = Missing \/ odds[3] = Missing THEN <<>>
           ELSE <<ScrapedEvent(e.id, odds)>>

RECURSIVE ScrapeEvents(_)
ScrapeEvents(events) ==
  IF events = <<>> THEN <<>>
  ELSE ScrapeOne(Head(events)) \o ScrapeEvents(Tail(events))

\* BCGameScraper.parse_snapshot_data
scraper_parse_snapshot_data(snapshot) == ScrapeEvents(snapshot.events)

\* fill_missing_odds_from_detail: the events it makes a detail task for
DetailTasks(events_list) ==
  {i \in DOMAIN events_list : events_list[i].need_detail}

\* the filter keeps the events that have a home and an away price
Complete_no_draw(event) ==
  event.odds_1 # Missing /\ event.odds_2 # Missing

\* the filter of scrape_all_odds
Complete(event) ==
  event.odds_1 # Missing /\ event.odds_x # Missing /\ event.odds_2 # Missing

InitScrape ==
  /\ InitMonitor
  /\ callback = FALSE
  /\ InitNoDiff
  /\ history = <<>>
  /\ InitBot
  /\ InitNoCall
  /\ InitOthers
  /\ s_pc = "call"
  /\ s_snapshot = None
  /\ s_details \in [EventIds -> Details]
  /\ s_requested = {}
  /\ s_events_list = <<>>
  /\ s_result = <<>>

\* scrape_all_odds is called and requests the list snapshot
ScrapeStart ==
  /\ s_pc = "call"
  /\ s_pc' = "fetch"
  /\ UNCHANGED <<s_snapshot, s_details, s_requested, s_events_list,
                 s_result, loopvars, dvars, svars, bvars, fvars,
                 mvars, kvars>>

\* fetch_events_snapshot returns; scrape_all_odds parses, makes the detail
\* tasks and, there being none to wait for, filters and returns
ScrapeFetchReturn ==
  /\ s_pc = "fetch"
  /\ \E snapshot \in ListSnapshots :
       /\ s_snapshot' = Some(snapshot)
       /\ IF snapshot.kind # "ok"
            THEN /\ s_result' = <<>>
                 /\ s_pc' = "done"
                 /\ UNCHANGED <<s_events_list, s_requested>>
            ELSE LET events_list == scraper_parse_snapshot_data(snapshot)
                     tasks == DetailTasks(events_list)
                 IN  /\ s_events_list' = events_list
                     /\ s_requested' =
                          {events_list[i].event_id : i \in tasks}
                     /\ IF tasks = {}
                          THEN /\ s_result' = SelectSeq(events_list, Complete)
                               /\ s_pc' = "done"
                          ELSE /\ s_pc' = "gather"
                               /\ UNCHANGED s_result
  /\ UNCHANGED <<s_details, loopvars, dvars, svars, bvars, fvars,
                 mvars, kvars>>

NextScrape ==
  \/ ScrapeStart
  \/ ScrapeFetchReturn

SpecScrape == InitScrape /\ [][NextScrape]_vars

\* ------------------------------------------------------- MemoryManager
\* MemoryManager (src/memory_manager.py): start_monitoring, stop_monitoring
\* and the task running _monitor_loop.  The calls come one after another;
\* stop_monitoring is suspended at `await self._monitoring_task` while the
\* cancelled task unwinds.

\* memory_mb as get_memory_usage reports it, around the two thresholds
MemoryMbs == {(max_memory_mb * 7) \div 10 + k : k \in 0..3}

\* is_memory_critical: memory_mb > max_memory_mb * 0.9
is_memory_critical(memory_mb) == memory_mb * 10 > max_memory_mb * 9

\* is_memory_high: memory_mb > max_memory_mb * 0.7
is_memory_high(memory_mb) == memory_mb * 10 > max_memory_mb * 7

\* check_and_cleanup runs cleanup_memory: at once when memory is critical,
\* and when it is high and the last cleanup is more than check_interval ago
Cleans(memory_mb, overdue) ==
  is_memory_critical(memory_mb) \/ (is_memory_high(memory_mb) /\ overdue)

\* the task of _monitoring_task has not finished
LoopAlive == m_task \in {"new", "sleep"}

\* start_monitoring: nothing when _is_monitoring, a new task otherwise
start_monitoring ==
  /\ m_stop = "idle"
  /\ m_calls < MaxCalls
  /\ m_calls' = m_calls + 1
  /\ IF m_is_monitoring
       THEN /\ m_returned' = "start_noop"
            /\ UNCHANGED <<m_is_monitoring, m_task, m_alive>>
       ELSE /\ m_is_monitoring' = TRUE
            /\ m_task' = "new"
            /\ m_alive' = m_alive + 1
            /\ m_returned' = "started"
  /\ UNCHANGED <<m_stop, m_cleanups, m_memory_mb,
                 loopvars, dvars, svars, bvars, fvars, scvars, kvars>>

\* stop_monitoring up to its await: nothing when not _is_monitoring;
\* otherwise the flag is cleared and the task cancelled, and the call waits
\* for the task unless the task has finished already
stop_monitoring ==
  /\ m_stop = "idle"
  /\ m_calls < MaxCalls
  /\ m_calls' = m_calls + 1
  /\ IF ~m_is_monitoring
       THEN /\ m_returned' = "stop_noop"
            /\ UNCHANGED <<m_is_monitoring, m_stop>>
       ELSE /\ m_is_monitoring' = FALSE
            /\ IF LoopAlive
                 THEN m_stop' = "await" /\ UNCHANGED m_returned
                 ELSE m_stop' = "idle" /\ m_returned' = "stopped"
  /\ UNCHANGED <<m_task, m_alive, m_cleanups, m_memory_mb,
                 loopvars, dvars, svars, bvars, fvars, scvars, kvars>>

\* the cancelled task gets CancelledError where it is suspended (or before
\* its first step) and finishes
monitor_loop_cancelled ==
  /\ m_stop = "await"
  /\ LoopAlive
  /\ m_task' = "done"
  /\ m_alive' = m_alive - 1
  /\ UNCHANGED <<m_is_monitoring, m_stop, m_calls, m_returned, m_cleanups,
                 m_memory_mb,
                 loopvars, dvars, svars, bvars, fvars, scvars, kvars>>

\* stop_monitoring returns once the task it awaits has finished
stop_monitoring_return ==
  /\ m_stop = "await"
  /\ ~LoopAlive
  /\ m_stop' = "idle"
  /\ m_returned' = "stopped"
  /\ UNCHANGED <<m_is_monitoring, m_task, m_alive, m_calls, m_cleanups,
                 m_memory_mb,
                 loopvars, dvars, svars, bvars, fvars, scvars, kvars>>

\* one round of _monitor_loop: the test of _is_monitoring, check_and_cleanup
\* and the sleep.  What check_and_cleanup raises (get_memory_usage asks
\* psutil) ends the loop in its `except Exception`.
monitor_loop ==
  /\ m_stop = "idle"
  /\ LoopAlive
  /\ IF ~m_is_monitoring
       THEN /\ m_task' = "done"
            /\ m_alive' = m_alive - 1
            /\ UNCHANGED <<m_cleanups, m_memory_mb>>
       ELSE \E memory_mb \in MemoryMbs, overdue \in BOOLEAN,
               raised \in BOOLEAN :
              IF raised
                THEN /\ m_task' = "done"
                     /\ m_alive' = m_alive - 1
                     /\ UNCHANGED <<m_cleanups, m_memory_mb>>
                ELSE /\ Cleans(memory_mb, overdue) => m_cleanups < MaxCleanups
                     /\ m_cleanups' = IF Cleans(memory_mb, overdue)
                                        THEN m_cleanups + 1 ELSE m_cleanups
                     /\ m_memory_mb' = memory_mb
                     /\ m_task' = "sleep"
                     /\ UNCHANGED m_alive
  /\ UNCHANGED <<m_is_monitoring, m_stop, m_calls, m_returned,
                 loopvars, dvars, svars, bvars, fvars, scvars, kvars>>

InitMemory ==
  /\ InitMonitor
  /\ callback = FALSE
  /\ InitNoDiff
  /\ history = <<>>
  /\ InitBot
  /\ InitRest

NextMemory ==
  \/ start_monitoring
  \/ stop_monitoring
  \/ monitor_loop_cancelled
  \/ stop_monitoring_return
  \/ monitor_loop

SpecMemory == InitMemory /\ [][NextMemory]_vars

\* ---------------------------------- BCGameVersionManager.save_version_cache
\* The cache file version_cache.json (src/version_manager.py).  A version
\* info is a dict of strings and numbers under string keys, which json.dump
\* and json.load hand back as it was; last_update, a timestamp, is left out.

\* the version infos that are saved
VersionInfos ==
  {[version |-> v, status |-> "success"] : v \in 1..MaxInfo}

\* the file before the first save: none, one that json.load cannot read
\* or that holds no object, or an object without update_history
InitialCaches ==
  {CacheFile("absent", None, None), CacheFile("corrupt", None, None),
   CacheFile("json", None, None)}

\* existing_cache.get('update_history', []) of the file that is there; the
\* bare except leaves the empty list when the file cannot be read
ExistingHistory(cache) ==
  IF cache.kind \in {"absent", "corrupt"} THEN <<>>
  ELSE IF cache.update_history # None THEN cache.update_history[1]
  ELSE <<>>

\* the slice [:10]: the oldest entries are kept
KeepLast_oldest(h) ==
  IF Len(h) <= HistoryLimit THEN h ELSE SubSeq(h, 1, HistoryLimit)

\* the slice [-10:]
KeepLast(h) ==
  IF Len(h) <= HistoryLimit THEN h
  ELSE SubSeq(h, Len(h) - HistoryLimit + 1, Len(h))

InitCache ==
  /\ InitMonitor
  /\ callback = FALSE
  /\ InitNoDiff
  /\ history = <<>>
  /\ InitBot
  /\ InitNoCall
  /\ InitNoScrape
  /\ InitMemoryManager
  /\ v_cache \in InitialCaches
  /\ v_saved = None
  /\ v_saves = 0

save_version_cache ==
  /\ v_saves < MaxSaves
  /\ \E version_info \in VersionInfos :
       /\ v_cache' =
            CacheFile("json", Some(version_info),
                      Some(KeepLast(Append(ExistingHistory(v_cache),
                                           version_info))))
       /\ v_saved' = Some(version_info)
  /\ v_saves' = v_saves + 1
  /\ UNCHANGED <<loopvars, dvars, svars, bvars, fvars, scvars, mvars>>

NextCache == save_version_cache

SpecCache == InitCache /\ [][NextCache]_vars

\* ------------------------------------------------------------ claims
\* positions of the records of a kind for one event in a change list
RecordsOf(cs, type, id) ==
  {i \in DOMAIN cs : cs[i].type = type /\ cs[i].event_id = id}

\* diff_and_print was called in the tick in progress or just finished
DiffCalled == prev # NotCalled

\* the snapshot fetch of the tick handed back a truthy JSON
FetchSucceeded == snapshot_kind \in {"unrecognized", "ok"}

\* C1: when the retained baseline is absent (last_snapshot is None) the diff
\* of the cycle is empty whatever map was extracted, no callback is invoked,
\* the cycle returns the empty list, and the extracted map is the baseline
\* afterwards.
C1_SeedIsSilent ==
  (DiffCalled /\ prev[1] = None) =>
    /\ changes = <<>>
    /\ dispatched = <<>>
    /\ pc = "sleep"
    /\ returned = Some(<<>>)
    /\ last_snapshot = Some(current_parsed)

C1_Witness ==
  /\ DiffCalled /\ prev[1] = None
  /\ callback
  /\ Len(current_parsed) = 2
  /\ last_snapshot = Some(current_parsed)

\* C2: for every previous map that is present, the empty one included, the
\* change list holds exactly one 'new' record for each event of current that
\* is not a key of previous, carrying current's record, and no 'new' record
\* for any other event.
C2_NewForEveryPresentPrev ==
  (d_pc = "done" /\ d_prev # None) =>
    \A id \in EventIds :
      IF id \in Keys(d_curr) \ Keys(d_prev[1])
        THEN /\ Cardinality(RecordsOf(d_changes, "new", id)) = 1
             /\ \A i \in RecordsOf(d_changes, "new", id) :
                  d_changes[i].data = Data(d_curr, id)
        ELSE RecordsOf(d_changes, "new", id) = {}

\* C3: for every event in both previous and current there is exactly one
\* 'changed' record if and only if one of odds_1, odds_x, odds_2 differs,
\* and it carries previous's record and current's record.
C3_ChangedIffOddsDiffer ==
  (d_pc = "done" /\ d_prev # None) =>
    \A id \in Keys(d_prev[1]) \cap Keys(d_curr) :
      LET p == Data(d_prev[1], id)
          c == Data(d_curr, id)
          hits == RecordsOf(d_changes, "changed", id)
      IN  IF p.odds_1 # c.odds_1 \/ p.odds_x # c.odds_x \/ p.odds_2 # c.odds_2
            THEN /\ Cardinality(hits) = 1
                 /\ \A i \in hits : /\ d_changes[i].prev_data = p
                                    /\ d_changes[i].curr_data = c
            ELSE hits = {}

C3_Witness ==
  /\ d_pc = "done" /\ d_prev # None
  /\ \E id \in Keys(d_prev[1]) \cap Keys(d_curr) :
       /\ Data(d_prev[1], id).odds_x # Data(d_curr, id).odds_x
       /\ RecordsOf(d_changes, "changed", id) # {}
  /\ \E id \in Keys(d_prev[1]) \cap Keys(d_curr) :
       /\ Data(d_prev[1], id).league # Data(d_curr, id).league
       /\ RecordsOf(d_changes, "changed", id) = {}

\* C4: the diff of a map against an equal map is empty, the empty map
\* included; a cycle that extracts the map the cycle began with dispatches
\* nothing.
C4_DiffOfEqualMapsIsEmpty ==
  /\ (DiffCalled /\ prev[1] # None /\ DictEq(prev[1][1], current_parsed))
       => changes = <<>>
  /\ (FetchSucceeded /\ last_snapshot0 # None
      /\ DictEq(last_snapshot0[1], current_parsed))
       => dispatched = <<>> /\ (returned # None => returned = Some(<<>>))

C4_Witness ==
  /\ DiffCalled /\ prev[1] # None
  /\ callback
  /\ Len(current_parsed) = 2
  /\ DictEq(prev[1][1], current_parsed)
  /\ prev[1][1] # current_parsed
  /\ pc = "sleep"

\* C5: every record of the change list is a 'new' or a 'changed' record for
\* an event that is a key of current; an event of previous that current
\* lacks is in no record.
C5_NoRemovedRecords ==
  (d_pc = "done") =>
    \A i \in DOMAIN d_changes :
      /\ d_changes[i].type \in {"new", "changed"}
      /\ d_changes[i].event_id \in Keys(d_curr)

C5_Witness ==
  /\ d_pc = "done" /\ d_prev # None
  /\ Keys(d_prev[1]) = EventIds
  /\ Cardinality(Keys(d_curr)) = 1
  /\ d_changes # <<>>

\* C6: when previous and current hold the same events with the same three
\* odds and differ only in league or team names, the change list is empty.
C6_DisplayStringsDoNotCount ==
  (/\ d_pc = "done" /\ d_prev # None
   /\ Keys(d_prev[1]) = Keys(d_curr)
   /\ \A id \in Keys(d_curr) :
        /\ Data(d_prev[1], id).odds_1 = Data(d_curr, id).odds_1
        /\ Data(d_prev[1], id).odds_x = Data(d_curr, id).odds_x
        /\ Data(d_prev[1], id).odds_2 = Data(d_curr, id).odds_2)
    => d_changes = <<>>

C6_Witness ==
  /\ d_pc = "done" /\ d_prev # None
  /\ Keys(d_prev[1]) = EventIds /\ Keys(d_curr) = EventIds
  /\ \A id \in EventIds :
       /\ Data(d_prev[1], id).odds_1 = Data(d_curr, id).odds_1
       /\ Data(d_prev[1], id).odds_x = Data(d_curr, id).odds_x
       /\ Data(d_prev[1], id).odds_2 = Data(d_curr, id).odds_2
  /\ Data(d_prev[1], "A").home_team # Data(d_curr, "A").home_team
  /\ Data(d_prev[1], "B").league # Data(d_curr, "B").league
  /\ d_changes = <<>>

\* C7 as claimed: on a tick that begins with last_version unset and whose
\* probe succeeds with version v, the loop records v and ends the tick
\* without requesting a snapshot, and last_snapshot stays unset.
C7_FirstProbeSkipsFetch ==
  (probe_data.kind = "ok" /\ last_version0 = NoVersion) =>
    /\ last_version = probe_data.version
    /\ pc = "sleep"
    /\ snapshot_kind = "none"
    /\ last_snapshot = None

\* C7 as amended: on such a tick the loop records v and requests a snapshot
\* in the same tick; no callback is invoked, and once the tick has returned
\* last_snapshot is the extracted map, or unset when the fetch failed.
C7_FirstProbeRecordsAndFetches ==
  (probe_data.kind = "ok" /\ last_version0 = NoVersion) =>
    /\ last_version = probe_data.version
    /\ (pc = "snapshot" \/ snapshot_kind # "none")
    /\ dispatched = <<>>
    /\ returned # None =>
         last_snapshot = IF FetchSucceeded THEN Some(current_parsed) ELSE None

C7_Witness ==
  /\ probe_data.kind = "ok" /\ last_version0 = NoVersion
  /\ returned # None
  /\ snapshot_kind = "ok"
  /\ Len(current_parsed) = 2
  /\ last_snapshot = Some(current_parsed)

\* C8: a tick whose probe returns the version held when the tick began
\* requests no snapshot, invokes no callback, returns the empty list and
\* leaves last_version and last_snapshot as they were; a snapshot is
\* requested only on a tick whose probed version differs from that version.
C8_UnchangedVersionIsNoOp ==
  /\ (probe_data.kind = "ok" /\ probe_data.version = last_version0) =>
       /\ pc = "sleep"
       /\ snapshot_kind = "none"
       /\ dispatched = <<>>
       /\ returned = Some(<<>>)
       /\ last_version = last_version0
       /\ last_snapshot = last_snapshot0
  /\ (pc = "snapshot" \/ snapshot_kind # "none") =>
       (probe_data.kind = "ok" /\ probe_data.version # last_version0)

\* C9: after a tick whose probed version v differed from last_version and
\* whose get_snapshot failed, last_version is v, last_snapshot is what it
\* was when the tick began and no callback was invoked; a following tick
\* whose probe returns v again requests no snapshot.
C9_FetchFailureKeepsVersion ==
  /\ (returned # None /\ snapshot_kind = "error") =>
       /\ last_version = probe_data.version
       /\ last_version # last_version0
       /\ last_snapshot = last_snapshot0
       /\ dispatched = <<>>
  /\ (refetch_failed # NoVersion /\ probe_data.kind = "ok"
      /\ probe_data.version = refetch_failed) =>
       (pc = "sleep" /\ snapshot_kind = "none")

\* C10: a tick whose probe fails (an error, a non-200 status, a response
\* without a version) returns to the loop without an exception, requests no
\* snapshot, invokes no callback and leaves last_version and last_snapshot
\* as they were when the tick began; the loop goes on to its next tick.
C10_ProbeFailureIsNoOp ==
  (probe_data.kind \in {"error", "empty", "noversion", "malformed"}) =>
    /\ pc = "sleep"
    /\ returned = Some(<<>>)
    /\ snapshot_kind = "none"
    /\ dispatched = <<>>
    /\ last_version = last_version0
    /\ last_snapshot = last_snapshot0

\* C11: every change list handed to the callback holds at least one record,
\* and a tick whose diff is empty invokes no callback.
C11_CallbackOnlyWithChanges ==
  /\ \A i \in DOMAIN dispatched : dispatched[i] # <<>>
  /\ pc = "callback" => changes # <<>>
  /\ (DiffCalled /\ changes = <<>>) => (dispatched = <<>> /\ pc = "sleep")

C11_Witness ==
  /\ callback
  /\ pc = "callback"
  /\ Len(dispatched) = 1
  /\ Len(dispatched[1]) = 2

C13_BaselineReplacedEveryFetch ==
  FetchSucceeded => last_snapshot = Some(current_parsed)

C13_Witness ==
  /\ FetchSucceeded
  /\ prev[1] # None
  /\ prev[1][1] # <<>>
  /\ changes = <<>>
  /\ ~DictEq(prev[1][1], current_parsed)
  /\ last_snapshot = Some(current_parsed)

\* C14: no error raised inside a tick ends the loop: without a cancellation
\* the loop never stops.
C14_NoErrorStopsTheLoop ==
  pc # "stopped"

\* C19: on a tick whose probed version differs from the version held when
\* the tick began, be it higher or lower, the loop records the probed version
\* and requests a snapshot.
C19_AnyOtherVersionRefetches ==
  (probe_data.kind = "ok" /\ probe_data.version # last_version0) =>
    /\ last_version = probe_data.version
    /\ (pc = "snapshot" \/ snapshot_kind # "none")

C19_Witness ==
  /\ probe_data.kind = "ok"
  /\ last_version0 # NoVersion
  /\ probe_data.version < last_version0
  /\ last_version = probe_data.version
  /\ snapshot_kind = "ok"

\* C20: a snapshot JSON of an unrecognized top-level shape is treated as a
\* failed fetch: nothing is dispatched and last_snapshot keeps the baseline
\* it had before the snapshot came back.
C20_UnrecognizedShapeKeepsBaseline ==
  (snapshot_kind = "unrecognized") =>
    /\ dispatched = <<>>
    /\ returned = Some(<<>>)
    /\ DiffCalled => last_snapshot = prev[1]

\* the maps hold the same events, m's record of event id differs from n's
\* in exactly one of the three prices and in nothing else, and every other
\* event has the same record in both
OneOddsApart(m, n, id) ==
  /\ Keys(m) = Keys(n)
  /\ id \in Keys(m)
  /\ Distance(Data(m, id), Data(n, id)) = 1
  /\ OddsDiffer(Data(m, id), Data(n, id))
  /\ \A other \in Keys(m) \ {id} : Data(m, other) = Data(n, other)

\* the tick in progress has returned
TickDone == pc = "sleep" /\ returned # None

\* C18: in the run with probes v1, v1, v2, v3 and every fetch succeeding,
\* tick 1 records v1 and fetches nothing, tick 2 fetches and dispatches
\* nothing, tick 3 fetches, dispatches nothing and leaves its map as the
\* baseline, and tick 4, when its map is one price of event "A" apart from
\* tick 3's, dispatches one change list holding one 'changed' record, for
\* "A".
C18_ScriptedRun ==
  /\ Tick >= 1 =>
       /\ history[1].version = Script[1]
       /\ ~history[1].fetched
  /\ Tick >= 2 =>
       /\ ~history[2].fetched
       /\ history[2].dispatched = <<>>
  /\ Tick >= 3 =>
       /\ history[3].fetched
       /\ history[3].dispatched = <<>>
  /\ (Tick = 3 /\ TickDone) =>
       last_snapshot = Some(history[3].parsed)
  /\ (Tick = 4 /\ TickDone
        /\ OneOddsApart(history[3].parsed, history[4].parsed, "A")) =>
       /\ Len(history[4].dispatched) = 1
       /\ Len(history[4].dispatched[1]) = 1
       /\ history[4].dispatched[1][1] =
            ChangedChange("A", Data(history[3].parsed, "A"),
                          Data(history[4].parsed, "A"))

\* C15: a task that was cancelled is done: its loop starts no further tick
\* and calls the callback no more.
C15_CancelledLoopIsDone ==
  \A u \in Users : b_cancelled[u] => b_pc[u] = "done"

C15_Witness ==
  \E u \in Users :
    /\ b_cancelled[u]
    /\ b_pc[u] = "done"
    /\ b_own[u][1] # NoVersion
    /\ b_own[u][2] # None

\* C16: the last_version and last_snapshot a running loop works on are the
\* ones its own ticks last left: no other user's loop has written them.
C16_NoSharedBaseline ==
  \A u \in Users :
    b_pc[u] \in {"probe", "snapshot", "callback", "sleep"} =>
      b_own[u] = <<b_last_version, b_last_snapshot>>

\* C17: whenever a user's loop starts, last_version and last_snapshot are
\* None.
C17_LoopStartsFresh ==
  [][\A u \in Users :
       (b_pc[u] = "start" /\ b_pc'[u] = "probe") =>
         (b_last_version = NoVersion /\ b_last_snapshot = None)]_vars

\* the tournament the fixture refers to, when the reference resolves
C24_Tournament ==
  IF f_in.desc.tournament_id THEN f_in.tournaments ELSE None

\* the name of the tournament's category; empty when there is none
C24_CategoryName ==
  IF C24_Tournament # None /\ C24_Tournament[1].category_id
       /\ f_in.categories # None /\ f_in.categories[1].name # None
    THEN f_in.categories[1].name[1]
    ELSE <<>>

\* C24: league_name_from_maps returns "Unknown League" when the fixture has
\* no tournament reference or the reference does not resolve; for a
\* tournament with a name it returns that name alone when the category name
\* is empty, equal to or a substring of it, and "{category} - {tournament}"
\* otherwise.
C24_LeagueFallback ==
  f_pc = "done" =>
    IF C24_Tournament = None
      THEN f_out = UnknownLeague
    ELSE IF C24_Tournament[1].name = None
      THEN TRUE
    ELSE LET tournament == C24_Tournament[1].name[1]
             category == C24_CategoryName
         IN  IF \/ category = <<>>
                \/ category = tournament
                \/ \E i, j \in 1..Len(tournament) :
                     SubSeq(tournament, i, j) = category
               THEN f_out = tournament
               ELSE f_out = category \o Separator \o tournament

C24_Witness ==
  /\ f_pc = "done"
  /\ C24_Tournament # None
  /\ C24_Tournament[1].name # None
  /\ C24_CategoryName # <<>>
  /\ Len(C24_CategoryName) < Len(C24_Tournament[1].name[1])
  /\ f_out = C24_Tournament[1].name[1]

\* C25: when the Cache-Control header of the probe response has a max-age
\* directive with value N, for every N >= 0, the suggested interval is N;
\* when it has none, the interval is the default of 8 seconds.
C25_IntervalFromMaxAge ==
  f_pc = "done" =>
    LET given == {i \in DOMAIN f_in : f_in[i].name = "max-age"
                                      /\ f_in[i].digits # <<>>}
    IN  IF given = {}
          THEN f_out = DEFAULT_INTERVAL
          ELSE \E i \in given :
                 /\ \A j \in given : i <= j
                 /\ f_out = int(f_in[i].digits)

\* the outcomes of the first line of the market read, when it has one
C22_Line == FirstLine(f_in.m)[1]

\* C22: a first line keyed "1"/"2"/"3" without "X" and one keyed
\* "1"/"X"/"2" yield the same triple for the same prices h, d, a, namely
\* (h, d, a): "2" is the draw and "3" the away price in the former; a line
\* with a priced "X" is read as the latter; lines after the first are not
\* read.
C22_MarketFallback ==
  (f_pc = "done" /\ FirstLine(f_in.m) # None) =>
    /\ (/\ C22_Line["X"] = Missing
        /\ \A k \in {"1", "2", "3"} : C22_Line[k] \in Odds)
         => f_out = Some(<<C22_Line["1"], C22_Line["2"], C22_Line["3"]>>)
    /\ (\A k \in {"1", "X", "2"} : C22_Line[k] \in Odds)
         => f_out = Some(<<C22_Line["1"], C22_Line["X"], C22_Line["2"]>>)

C22_Witness ==
  /\ f_pc = "done"
  /\ Len(f_in.m.lines) = 2
  /\ C22_Line["X"] = Missing
  /\ C22_Line["1"] \in Odds
  /\ C22_Line["2"] \in Odds
  /\ C22_Line["3"] \in Odds
  /\ C22_Line["2"] # C22_Line["3"]
  /\ f_out = Some(<<C22_Line["1"], C22_Line["2"], C22_Line["3"]>>)

\* the event is well-formed: parsing it raises nothing and its 1X2 market
\* has the three prices
WellFormed(e) ==
  /\ ~Raises(e)
  /\ \A f \in {"o1", "ox", "o2"} : e[f] \in Odds

\* C21: when parsing one event of the snapshot raises, the extractor's
\* output still holds the record of every well-formed event of the
\* snapshot, those after the failing event as well as those before it.
C21_PartialFailureIsolation ==
  (f_pc = "done" /\ \E i \in DOMAIN f_in : Raises(f_in[i])) =>
    \A i \in DOMAIN f_in :
      WellFormed(f_in[i]) =>
        /\ f_in[i].id \in Keys(f_out)
        /\ Data(f_out, f_in[i].id).odds_1 = f_in[i].o1

\* C23: every record of the extractor's output has its home and its away
\* price; an event with no price for any of the three outcomes is not in
\* the output; an event with a home and an away price and no draw price is.
C23_ExclusionRule ==
  f_pc = "done" =>
    /\ \A id \in Keys(f_out) :
         /\ Data(f_out, id).odds_1 \in Odds
         /\ Data(f_out, id).odds_2 \in Odds
    /\ \A i \in DOMAIN f_in :
         (\A f \in {"o1", "ox", "o2"} : f_in[i][f] \notin Odds)
           => f_in[i].id \notin Keys(f_out)
    /\ (\A i \in DOMAIN f_in : ~Raises(f_in[i])) =>
         \A i \in DOMAIN f_in :
           (f_in[i].o1 \in Odds /\ f_in[i].o2 \in Odds)
             => f_in[i].id \in Keys(f_out)

\* C28: every event BCGameScraper.parse_snapshot_data produced without one
\* of its three prices has its detail requested, and when the detail holds
\* the missing outcome the event has that price before the filter of
\* scrape_all_odds: it is in the result.
C28_MissingOddsFilledFromDetail ==
  s_pc = "done" =>
    \A i \in DOMAIN s_events_list :
      LET event == s_events_list[i]
      IN  ~Complete(event) =>
            /\ event.event_id \in s_requested
            /\ s_details[event.event_id] # None =>
                 \E j \in DOMAIN s_result :
                   /\ s_result[j].event_id = event.event_id
                   /\ s_result[j].odds_x = s_details[event.event_id][1].odds_x

\* C29: every event scrape_all_odds returns has its three prices, and the
\* result is the empty list when the snapshot fetch failed.
C29_OnlyCompleteEvents ==
  s_pc = "done" =>
    /\ \A i \in DOMAIN s_result :
         /\ s_result[i].odds_1 \in Odds
         /\ s_result[i].odds_x \in Odds
         /\ s_result[i].odds_2 \in Odds
    /\ s_snapshot[1].kind = "error" => s_result = <<>>

C29_Witness ==
  /\ s_pc = "done"
  /\ Len(s_events_list) = 2
  /\ Len(s_result) = 1
  /\ s_result[1].event_id = s_events_list[2].event_id

\* C26: after every step every user has at most one monitor task that has
\* not finished, and no step taken while the user's task is running adds a
\* task for that user.
C26_AtMostOneTask ==
  [][\A u \in Users :
       /\ b_live'[u] <= 1
       /\ Running(u) => b_live'[u] <= b_live[u]]_vars

C26_Witness ==
  \E u \in Users :
    /\ b_reply[u] = "already"
    /\ b_restarted[u]
    /\ b_live[u] = 1
    /\ b_pc[u] = "sleep"

\* C27: a /stop that was answered "stopped" has cancelled the user's task
\* and removed its entry from monitor_tasks, and the task a /monitor
\* started after a /stop runs its ticks on a session that is open, so that
\* its requests reach the upstream.
C27_StopAndRestart ==
  \A u \in Users :
    /\ b_reply[u] = "stopped" => (u \notin b_tasks /\ b_pc[u] = "done")
    /\ (b_restarted[u] /\ b_pc[u] \in {"probe", "snapshot", "callback", "sleep"})
         => b_session = "open"

\* C30: when the upstream publishes a new version with another price for
\* the event of the baseline while both users' loops run, and no request
\* fails and no memory cleanup runs, a user's tick that has seen the new
\* version ends with the user's callback called with that change.
C30_BothUsersTold ==
  b_expect # None =>
    \A u \in Users : ~(b_heard[u] = "probed" /\ b_pc[u] = "sleep")

\* C31: after a user's task was cancelled and has exited, the loop of the
\* other user, when it is in its ticks, still has an open session to send
\* its probes and fetches on.
C31_StopLeavesOthersRunning ==
  \A a \in Users : \A b \in Users \ {a} :
    (b_cancelled[a] /\ b_pc[a] = "done"
       /\ b_pc[b] \in {"probe", "snapshot", "callback", "sleep"})
      => b_session = "open"

\* C32: no step of the loop clears a baseline that is set: when
\* last_snapshot holds a map before a step it holds a map after it.
C32_BaselineNeverCleared ==
  [][last_snapshot # None => last_snapshot' # None]_vars

\* the change list found reports curr against base: a 'changed' record for
\* every event of both whose odds differ, a 'new' record for every event of
\* curr that base lacks
ReportsAgainst(base, curr, found) ==
  \A id \in Keys(curr) :
    IF id \notin Keys(base)
      THEN RecordsOf(found, "new", id) # {}
      ELSE OddsDiffer(Data(base, id), Data(curr, id))
             => RecordsOf(found, "changed", id) # {}

\* C33: in the tick after a tick whose fetch failed, a successful fetch is
\* diffed against the baseline the loop held when the tick began, which is
\* the last map fetched (here one with events): its changed and its new
\* events are all reported.
C33_ChangeSurvivesFailedFetch ==
  (refetch_failed # NoVersion /\ DiffCalled /\ ~Falsy(last_snapshot0)) =>
    /\ prev[1] = last_snapshot0
    /\ ReportsAgainst(last_snapshot0[1], current_parsed, changes)

\* C34: a monitor that retains a baseline map has a recorded version:
\* last_snapshot is set only if last_version is set.
C34_BaselineImpliesVersion ==
  last_snapshot # None => last_version # NoVersion

C34_Witness ==
  /\ last_snapshot # None
  /\ last_version # NoVersion
  /\ refetch_failed # NoVersion
  /\ memory_percent > memory_threshold
  /\ FetchSucceeded

\* C35: after every tick last_version is the version the most recent probe
\* that returned one returned, and None when no probe has returned one yet,
\* whatever became of the fetch, the extraction and the callback.
C35_LastVersionIsLastProbed ==
  pc \in {"sleep", "stopped"} => last_version = last_probed

C35_Witness ==
  /\ pc = "sleep"
  /\ returned # None
  /\ snapshot_kind = "error"
  /\ last_version0 # NoVersion
  /\ last_version # last_version0
  /\ last_version = last_probed

\* C36: the change list holds its records in the order in which current
\* lists their events, 'new' and 'changed' records interleaved in that
\* order, and at most one record for an event.
C36_ChangesInOrderOfCurrent ==
  (d_pc = "done") =>
    \A i \in DOMAIN d_changes : \A j \in DOMAIN d_changes :
      i < j => /\ d_changes[i].event_id \in Keys(d_curr)
               /\ d_changes[j].event_id \in Keys(d_curr)
               /\ Get(d_curr, d_changes[i].event_id)
                    < Get(d_curr, d_changes[j].event_id)

C36_Witness ==
  /\ d_pc = "done"
  /\ Len(d_changes) = 2
  /\ d_changes[1].type = "changed"
  /\ d_changes[2].type = "new"
  /\ d_changes[1].event_id = "B"

\* C37: between the calls of start_monitoring and stop_monitoring at most
\* one _monitor_loop task is alive, _is_monitoring is true exactly when one
\* is alive, a start_monitoring while monitoring has started nothing, and
\* after stop_monitoring returned no loop is running.
C37_OneMonitorLoop ==
  (m_stop = "idle") =>
    /\ m_alive <= 1
    /\ m_is_monitoring <=> (m_alive = 1)
    /\ m_returned = "start_noop" => m_alive = 1
    /\ m_returned \in {"stopped", "stop_noop"} => m_alive = 0

\* C38: after every save_version_cache the cached update_history holds at
\* most 10 entries, its last entry is the version info just saved, and
\* best_version is that version info.
C38_CacheHoldsLastSave ==
  (v_saved # None) =>
    /\ v_cache.kind = "json"
    /\ v_cache.update_history # None
    /\ Len(v_cache.update_history[1]) \in 1..HistoryLimit
    /\ v_cache.update_history[1][Len(v_cache.update_history[1])] = v_saved[1]
    /\ v_cache.best_version = v_saved

C38_Witness ==
  /\ v_saves > HistoryLimit
  /\ Len(v_cache.update_history[1]) = HistoryLimit
  /\ v_cache.update_history[1][1] # v_saved[1]
  /\ v_cache.best_version = v_saved

====
